---- MODULE Spec2Model ----
(***************************************************************************)
(* Model of dbus/dbus-server-debug-pipe.c: the in-process debug-pipe       *)
(* server registry (server_pipe_hash and its reference count), the         *)
(* creation and finalization of DBusServerDebugPipe objects, and the       *)
(* connection establishment of _dbus_transport_debug_pipe_new, including   *)
(* the hand-off of the new connection to the server's new-connection       *)
(* function.                                                               *)
(*                                                                         *)
(* A failed _dbus_assert aborts the process: the model records it in the   *)
(* variable aborted and takes no further step.                             *)
(***************************************************************************)
EXTENDS Integers, FiniteSets, Sequences, TLC

(* ---------------------------- bounds ---------------------------------- *)
MaxServers == 2      \* DBusServerDebugPipe objects ever allocated successfully

ServerIds == 1..MaxServers

\* the server names the callers use; only their equality matters to the code
Names == {"alpha", "beta"}
NoName == ""         \* the name of no server

(* ------------------------- program constants -------------------------- *)
NULL == 0            \* the null pointer: no server
NoObject == -1       \* reference count of an object that was never built

VARIABLES
    server_pipe_hash,           \* [alloc, entries]: the hash table, or NULL (alloc = FALSE)
    server_pipe_hash_refcount,  \* the static use count of the hash table
    servers,                    \* the DBusServerDebugPipe objects, by identity
    connection,                 \* the objects built by the latest successful connect
    pc,                         \* "idle", or "callback" inside new_connection_function
    cur,                        \* the connect in progress: [name, server]
    aborted,                    \* TRUE once a _dbus_assert has failed
    last                        \* the operation just performed and what it reported

vars == <<server_pipe_hash, server_pipe_hash_refcount, servers, connection,
          pc, cur, aborted, last>>

(* ------------------------------ data ---------------------------------- *)
NullHash == [alloc |-> FALSE, entries |-> {}]

NoServerObject ==
    [state |-> "unallocated", name |-> NoName, disconnected |-> FALSE,
     refcount |-> 0, ownerRefs |-> 0, new_connection_function |-> FALSE]

\* a server object after dbus_free: nothing of it is left to read (the model
\* keeps the name it had, for the record)
FinalizedServerObject == [NoServerObject EXCEPT !.state = "finalized"]

\* The objects of one connect: the two descriptors of the pipe, the two
\* transports and the connection.  A descriptor is "none" before the pipe
\* exists, "open" while this function owns it, "owned" once a transport owns
\* it and "closed" after its close; misuse is TRUE once something was
\* released that did not exist or was already released.
NoPipe ==
    [client_fd |-> "none", server_fd |-> "none",
     client_transport |-> NoObject, server_transport |-> NoObject,
     connection |-> NoObject, misuse |-> FALSE]

NoConnection == [retained |-> FALSE, obj |-> NoPipe]

NoCur == [name |-> NoName, server |-> NULL]

\* what an operation reported: its kind, the name and the server it was about,
\* the error it set ("unset" when it set none), what it returned ("NULL",
\* "server" or "transport"), what it released on its way out, the objects of
\* a connect that failed, and whether it read a server object after its
\* finalization; err is "AssertRef" or "AssertUnref" when the
\* operation ended in a failed assertion of pipe_hash_ref or pipe_hash_unref;
\* step is the step whose failure was injected (0 when none was)
Report(op, name, server, err, ret, released, obj) ==
    [op |-> op, name |-> name, server |-> server, err |-> err, ret |-> ret,
     released |-> released, obj |-> obj, useAfterFree |-> FALSE, step |-> 0]

(* --------------------------- hash table ------------------------------- *)
\* _dbus_hash_table_lookup_string: the server stored under name, or NULL
_dbus_hash_table_lookup_string(h, n) ==
    IF \E s \in ServerIds : <<n, s>> \in h.entries
    THEN CHOOSE s \in ServerIds : <<n, s>> \in h.entries
    ELSE NULL

\* _dbus_hash_table_insert_string: the entry under name is replaced
_dbus_hash_table_insert_string(h, n, s) ==
    [h EXCEPT !.entries = {e \in h.entries : e[1] # n} \cup {<<n, s>>}]

(* ------------------------ registry use count -------------------------- *)
\* line 80 as an increment
RefcountIncremented(rc) == rc + 1

\* the assignment of line 80, as a function of the count before it
RefcountAfterRef(rc) == 1

\* pipe_hash_ref: allocOk is FALSE when _dbus_hash_table_new returns NULL
pipe_hash_ref(h, rc, allocOk) ==
    IF ~h.alloc
    THEN IF rc # 0
         THEN [ok |-> FALSE, abort |-> TRUE, hash |-> h, refcount |-> rc]
         ELSE IF ~allocOk
              THEN [ok |-> FALSE, abort |-> FALSE, hash |-> h, refcount |-> rc]
              ELSE [ok |-> TRUE, abort |-> FALSE,
                    hash |-> [alloc |-> TRUE, entries |-> {}],
                    refcount |-> RefcountAfterRef(rc)]
    ELSE [ok |-> TRUE, abort |-> FALSE, hash |-> h,
          refcount |-> RefcountAfterRef(rc)]

\* pipe_hash_unref with the assertions of lines 88-89 left out
pipe_hash_unref_unchecked(h, rc) ==
    [abort |-> FALSE,
     hash |-> IF rc - 1 = 0 THEN NullHash ELSE h,
     refcount |-> rc - 1]

\* pipe_hash_unref with lines 92-96 left out: the table outlives its last user
pipe_hash_unref_keeps_table(h, rc) ==
    IF ~h.alloc \/ ~(rc > 0)
    THEN [abort |-> TRUE, hash |-> h, refcount |-> rc]
    ELSE [abort |-> FALSE, hash |-> h, refcount |-> rc - 1]

\* pipe_hash_unref: both assertions, the decrement, the destruction at zero
pipe_hash_unref(h, rc) ==
    IF ~h.alloc \/ ~(rc > 0)
    THEN [abort |-> TRUE, hash |-> h, refcount |-> rc]
    ELSE [abort |-> FALSE,
          hash |-> IF rc - 1 = 0 THEN NullHash ELSE h,
          refcount |-> rc - 1]

(* ------------------------------ Init ---------------------------------- *)
Init ==
    /\ server_pipe_hash = NullHash
    /\ server_pipe_hash_refcount = 0
    /\ servers = [s \in ServerIds |-> NoServerObject]
    /\ connection = NoConnection
    /\ pc = "idle"
    /\ cur = NoCur
    /\ aborted = FALSE
    /\ last = Report("none", NoName, NULL, "unset", "NULL", <<>>, NoPipe)

Live(s) == servers[s].state = "live"

FreshServer ==
    IF \E s \in ServerIds : servers[s].state = "unallocated"
    THEN CHOOSE s \in ServerIds :
            /\ servers[s].state = "unallocated"
            /\ \A t \in ServerIds : servers[t].state = "unallocated" => s <= t
    ELSE NULL

(* ---------------------- _dbus_server_debug_pipe_new ------------------- *)
\* what the steps before step fail have acquired, in the order of lines
\* 139-166: the registry reference, the server object, the address string,
\* the copy of the name, the base of the server
Acquired(fail) ==
    CASE fail = 2 -> <<"pipe_hash">>
      [] fail = 3 -> <<"pipe_hash", "debug_server">>
      [] fail \in {4, 5} -> <<"pipe_hash", "debug_server", "address">>
      [] fail = 6 -> <<"pipe_hash", "debug_server", "address", "name">>
      [] fail = 7 -> <<"pipe_hash", "debug_server", "address", "name", "base">>
      [] OTHER -> <<>>

\* the unwinding with the goto of line 162 aimed at nomem_3 and the one of
\* line 166 at nomem_2
UnwindWrongLabel(fail) ==
    CASE fail = 2 -> <<"pipe_hash">>
      [] fail = 3 -> <<"debug_server", "pipe_hash">>
      [] fail = 4 -> <<"address", "debug_server", "pipe_hash">>
      [] fail = 5 -> <<"name", "address", "debug_server", "pipe_hash">>
      [] fail = 6 -> <<"address", "debug_server", "pipe_hash">>
      [] fail = 7 -> <<"base", "name", "address", "debug_server", "pipe_hash">>
      [] OTHER -> <<>>

\* what the labels nomem_4 .. nomem_0 release, in the order they release it,
\* for a failure of step fail (2 dbus_new0, 3 _dbus_string_init,
\* 4 _dbus_string_append, 5 _dbus_strdup, 6 _dbus_server_init_base,
\* 7 _dbus_hash_table_insert_string)
Unwind(fail) ==
    CASE fail = 2 -> <<"pipe_hash">>
      [] fail = 3 -> <<"debug_server", "pipe_hash">>
      [] fail = 4 -> <<"address", "debug_server", "pipe_hash">>
      [] fail = 5 -> <<"address", "debug_server", "pipe_hash">>
      [] fail = 6 -> <<"name", "address", "debug_server", "pipe_hash">>
      [] fail = 7 -> <<"base", "name", "address", "debug_server", "pipe_hash">>
      [] OTHER -> <<>>

CreateFailures == 0..7   \* 0: nothing fails; 1: _dbus_hash_table_new fails

_dbus_server_debug_pipe_new(n, fail) ==
    /\ ~aborted
    /\ fail = 1 => ~server_pipe_hash.alloc
    /\ LET r == pipe_hash_ref(server_pipe_hash, server_pipe_hash_refcount, fail # 1)
           u == pipe_hash_unref(r.hash, r.refcount)
           s == FreshServer
       IN
       IF r.abort
       THEN /\ aborted' = TRUE
            /\ last' = Report("create", n, NULL, "AssertRef", "NULL", <<>>, NoPipe)
            /\ UNCHANGED <<server_pipe_hash, server_pipe_hash_refcount, servers>>
       ELSE IF ~r.ok
       THEN \* line 140: NULL is returned and the error is left as it was
            /\ last' = [Report("create", n, NULL, "unset", "NULL", <<>>, NoPipe)
                           EXCEPT !.step = fail]
            /\ UNCHANGED <<server_pipe_hash, server_pipe_hash_refcount, servers, aborted>>
       ELSE IF _dbus_hash_table_lookup_string(r.hash, n) # NULL
       THEN \* lines 142-147: no later step is reached, none can fail
            /\ fail = 0
            /\ aborted' = u.abort
            /\ server_pipe_hash' = u.hash
            /\ server_pipe_hash_refcount' = u.refcount
            /\ last' = Report("create", n, NULL,
                               IF u.abort THEN "AssertUnref" ELSE "AddressInUse",
                               "NULL", <<"pipe_hash">>, NoPipe)
            /\ UNCHANGED servers
       ELSE IF fail \in 2..7
       THEN \* lines 179-190
            /\ aborted' = u.abort
            /\ server_pipe_hash' = u.hash
            /\ server_pipe_hash_refcount' = u.refcount
            /\ last' = [Report("create", n, NULL,
                                IF u.abort THEN "AssertUnref" ELSE "NoMemory",
                                "NULL", Unwind(fail), NoPipe)
                           EXCEPT !.step = fail]
            /\ UNCHANGED servers
       ELSE \* lines 149-177
            /\ s # NULL
            /\ servers' = [servers EXCEPT ![s] =
                  [state |-> "live", name |-> n, disconnected |-> FALSE,
                   refcount |-> 1, ownerRefs |-> 1,
                   new_connection_function |-> FALSE]]
            /\ server_pipe_hash' = _dbus_hash_table_insert_string(r.hash, n, s)
            /\ server_pipe_hash_refcount' = r.refcount
            /\ last' = Report("create", n, s, "unset", "server", <<>>, NoPipe)
            /\ UNCHANGED aborted
    /\ UNCHANGED <<connection, pc, cur>>

(* --------------------- finalize, disconnect, owners ------------------- *)
\* debug_finalize, as the effect on the registry and on the server object
debug_finalize(s, h, rc, srv) ==
    LET u == pipe_hash_unref(h, rc) IN
    IF u.abort
    THEN [abort |-> TRUE, hash |-> h, refcount |-> rc, servers |-> srv]
    ELSE [abort |-> FALSE, hash |-> u.hash, refcount |-> u.refcount,
          servers |-> [srv EXCEPT ![s] =
                         [FinalizedServerObject EXCEPT !.name = srv[s].name]]]

\* dbus_server_unref by an owner of s: the last reference finalizes the server
dbus_server_unref(s) ==
    /\ ~aborted
    /\ Live(s)
    /\ servers[s].ownerRefs > 0
    /\ LET srv == [servers EXCEPT ![s].refcount = @ - 1, ![s].ownerRefs = @ - 1]
           f == debug_finalize(s, server_pipe_hash, server_pipe_hash_refcount, srv)
       IN
       IF srv[s].refcount = 0
       THEN /\ aborted' = f.abort
            /\ server_pipe_hash' = f.hash
            /\ server_pipe_hash_refcount' = f.refcount
            /\ servers' = f.servers
            /\ last' = Report("finalize", NoName, s,
                               IF f.abort THEN "AssertUnref" ELSE "unset",
                               "NULL", <<>>, NoPipe)
       ELSE /\ servers' = srv
            /\ last' = Report("unref", NoName, NULL, "unset", "NULL", <<>>, NoPipe)
            /\ UNCHANGED <<server_pipe_hash, server_pipe_hash_refcount, aborted>>
    /\ UNCHANGED <<connection, pc, cur>>

\* a debug_disconnect that also takes the server out of the hash table
debug_disconnect_removes(s) ==
    /\ ~aborted
    /\ Live(s)
    /\ servers' = [servers EXCEPT ![s].disconnected = TRUE]
    /\ server_pipe_hash' = [server_pipe_hash EXCEPT
                               !.entries = {e \in @ : e[2] # s}]
    /\ last' = Report("disconnect", NoName, NULL, "unset", "NULL", <<>>, NoPipe)
    /\ UNCHANGED <<server_pipe_hash_refcount, connection, pc, cur, aborted>>

\* debug_disconnect
debug_disconnect(s) ==
    /\ ~aborted
    /\ Live(s)
    /\ servers' = [servers EXCEPT ![s].disconnected = TRUE]
    /\ last' = Report("disconnect", NoName, NULL, "unset", "NULL", <<>>, NoPipe)
    /\ UNCHANGED <<server_pipe_hash, server_pipe_hash_refcount, connection, pc, cur, aborted>>

\* dbus_server_set_new_connection_function: f is TRUE for a function, FALSE for NULL
dbus_server_set_new_connection_function(s, f) ==
    /\ ~aborted
    /\ Live(s)
    /\ servers[s].new_connection_function # f
    /\ servers' = [servers EXCEPT ![s].new_connection_function = f]
    /\ last' = Report("set_function", NoName, NULL, "unset", "NULL", <<>>, NoPipe)
    /\ UNCHANGED <<server_pipe_hash, server_pipe_hash_refcount, connection, pc, cur, aborted>>

(* ------------------ transports, connections, descriptors -------------- *)
\* _dbus_close of a descriptor this function still owns
_dbus_close(o, fd) ==
    IF o[fd] = "open"
    THEN [o EXCEPT ![fd] = "closed"]
    ELSE [o EXCEPT !.misuse = TRUE]

\* _dbus_transport_new_for_fd: the transport owns the descriptor from now on
_dbus_transport_new_for_fd(o, t, fd) ==
    [o EXCEPT ![t] = 1, ![fd] = "owned"]

\* _dbus_transport_unref: the last reference closes the transport's descriptor
_dbus_transport_unref(o, t, fd) ==
    IF o[t] <= 0
    THEN [o EXCEPT !.misuse = TRUE]
    ELSE IF o[t] = 1
         THEN [o EXCEPT ![t] = 0,
                        ![fd] = IF @ = "owned" THEN "closed" ELSE @,
                        !.misuse = @ \/ o[fd] # "owned"]
         ELSE [o EXCEPT ![t] = @ - 1]

\* _dbus_connection_new_for_transport: the connection references the transport
_dbus_connection_new_for_transport(o) ==
    [o EXCEPT !.connection = 1, !.server_transport = @ + 1]

\* dbus_connection_ref
dbus_connection_ref(o) == [o EXCEPT !.connection = @ + 1]

\* dbus_connection_unref: the last reference releases the server transport
dbus_connection_unref(o) ==
    IF o.connection <= 0
    THEN [o EXCEPT !.misuse = TRUE]
    ELSE IF o.connection = 1
         THEN _dbus_transport_unref([o EXCEPT !.connection = 0],
                                    "server_transport", "server_fd")
         ELSE [o EXCEPT !.connection = @ - 1]

(* -------------------- _dbus_transport_debug_pipe_new -------------------- *)
\* _dbus_full_duplex_pipe: both descriptors are open and owned by the caller
_dbus_full_duplex_pipe(o) == [o EXCEPT !.client_fd = "open", !.server_fd = "open"]

\* lines 256-257 and 271-272: the two transports
ClientTransport(o) == _dbus_transport_new_for_fd(o, "client_transport", "client_fd")
ServerTransport(o) == _dbus_transport_new_for_fd(o, "server_transport", "server_fd")

\* lines 292-296 left out: no connection is built before the hand-off
NoConnectionForTransport(o) == o

\* lines 292-294: the connection takes the server transport over
ConnectionForTransport(o) ==
    _dbus_transport_unref(_dbus_connection_new_for_transport(o),
                          "server_transport", "server_fd")

\* the failure paths with the _dbus_close (server_fd, NULL) of line 276 left out
ConnectFailureObjectsLeak(fail) ==
    LET o1 == _dbus_full_duplex_pipe(NoPipe)
        o2 == ClientTransport(o1)
        o3 == ServerTransport(o2)
    IN
    CASE fail = 4 -> _dbus_close(_dbus_close(o1, "client_fd"), "server_fd")
      [] fail = 5 -> _dbus_transport_unref(o2, "client_transport", "client_fd")
      [] fail \in {6, 7} -> _dbus_transport_unref(
                        _dbus_transport_unref(o3, "server_transport", "server_fd"),
                        "client_transport", "client_fd")
      [] OTHER -> NoPipe

\* the objects left by a connect that fails at step fail (4 client transport,
\* 5 server transport, 6 _dbus_transport_set_auth_mechanisms,
\* 7 _dbus_connection_new_for_transport); steps 1 (_dbus_string_init),
\* 2 (_dbus_string_append) and 3 (_dbus_full_duplex_pipe) leave none
ConnectFailureObjects(fail) ==
    LET o1 == _dbus_full_duplex_pipe(NoPipe)
        o2 == ClientTransport(o1)
        o3 == ServerTransport(o2)
    IN
    CASE fail = 4 -> _dbus_close(_dbus_close(o1, "client_fd"), "server_fd")
      [] fail = 5 -> _dbus_close(
                        _dbus_transport_unref(o2, "client_transport", "client_fd"),
                        "server_fd")
      [] fail = 6 -> _dbus_transport_unref(
                        _dbus_transport_unref(o3, "server_transport", "server_fd"),
                        "client_transport", "client_fd")
      [] fail = 7 -> _dbus_transport_unref(
                        _dbus_transport_unref(o3, "server_transport", "server_fd"),
                        "client_transport", "client_fd")
      [] OTHER -> NoPipe

\* line 247 setting DBUS_ERROR_NO_MEMORY as every other failing step does
ConnectFailureErrorNoMemory(fail) == "NoMemory"

\* the error each failing step sets
ConnectFailureError(fail) == IF fail = 3 THEN "Failed" ELSE "NoMemory"

\* the objects of a connect that reached line 303
ConnectObjects ==
    ConnectionForTransport(ServerTransport(ClientTransport(_dbus_full_duplex_pipe(NoPipe))))

\* the call of line 308 left out
NoSelfReference(rc) == rc

\* line 308: the reference the function takes on the server around the call
SelfReference(rc) == rc + 1

\* the call of line 317 left out
KeepConnection(o) == o

\* line 317: the function gives its reference to the connection up
ReleaseConnection(o) == dbus_connection_unref(o)

\* what reading ->disconnected or ->new_connection_function of s can give:
\* the field of a live server, anything for a server that was freed
ReadFlag(s, field) ==
    IF Live(s) THEN {servers[s][field]} ELSE BOOLEAN

ConnectFailures == 0..7

\* lines 213-310: up to the return of the function when the server has no
\* new_connection_function, up to the call of that function when it has one
_dbus_transport_debug_pipe_new(n, fail) ==
    /\ ~aborted
    /\ pc = "idle"
    /\ LET server == _dbus_hash_table_lookup_string(server_pipe_hash, n) IN
       IF ~server_pipe_hash.alloc \/ server = NULL
       THEN \* lines 215-228: no later step is reached, none can fail
            /\ fail = 0
            /\ last' = Report("connect", n, NULL, "NoServer", "NULL", <<>>, NoPipe)
            /\ UNCHANGED <<servers, connection, pc, cur>>
       ELSE \E disconnected \in ReadFlag(server, "disconnected"),
               function \in ReadFlag(server, "new_connection_function") :
            LET uaf == ~Live(server) IN
            IF disconnected
            THEN /\ fail = 0
                 /\ last' = [Report("connect", n, server, "NoServer", "NULL", <<>>, NoPipe)
                                EXCEPT !.useAfterFree = uaf]
                 /\ UNCHANGED <<servers, connection, pc, cur>>
            ELSE IF fail # 0
            THEN /\ last' = [Report("connect", n, server, ConnectFailureError(fail),
                                    "NULL", <<>>, ConnectFailureObjects(fail))
                                EXCEPT !.useAfterFree = uaf, !.step = fail]
                 /\ UNCHANGED <<servers, connection, pc, cur>>
            ELSE IF function
            THEN /\ servers' = [servers EXCEPT ![server].refcount = SelfReference(@)]
                 /\ connection' = [retained |-> FALSE, obj |-> ConnectObjects]
                 /\ pc' = "callback"
                 /\ cur' = [name |-> n, server |-> server]
                 /\ last' = [Report("handoff", n, server, "unset", "NULL", <<>>, NoPipe)
                                EXCEPT !.useAfterFree = uaf]
            ELSE /\ connection' = [retained |-> FALSE,
                                   obj |-> ReleaseConnection(ConnectObjects)]
                 /\ last' = [Report("connect", n, server, "unset", "transport", <<>>, NoPipe)
                                EXCEPT !.useAfterFree = uaf]
                 /\ UNCHANGED <<servers, pc, cur>>
    /\ UNCHANGED <<server_pipe_hash, server_pipe_hash_refcount, aborted>>

\* the new_connection_function keeps the connection it was given
CallbackRetains ==
    /\ ~aborted
    /\ pc = "callback"
    /\ ~connection.retained
    /\ connection' = [connection EXCEPT !.retained = TRUE,
                                        !.obj = dbus_connection_ref(@)]
    /\ last' = Report("retain", NoName, NULL, "unset", "NULL", <<>>, NoPipe)
    /\ UNCHANGED <<server_pipe_hash, server_pipe_hash_refcount, servers, pc, cur, aborted>>

\* lines 311-319: the new_connection_function has returned
CallbackReturns ==
    /\ ~aborted
    /\ pc = "callback"
    /\ LET s == cur.server
           srv == [servers EXCEPT ![s].refcount = @ - 1]
           f == debug_finalize(s, server_pipe_hash, server_pipe_hash_refcount, srv)
           o == ReleaseConnection(connection.obj)
           uaf == ~Live(s)
       IN
       IF uaf
       THEN \* the server was freed under the call: line 311 reads freed memory
            /\ connection' = [connection EXCEPT !.obj = o]
            /\ last' = [Report("connect", cur.name, s, "unset", "transport", <<>>, NoPipe)
                           EXCEPT !.useAfterFree = TRUE]
            /\ UNCHANGED <<server_pipe_hash, server_pipe_hash_refcount, servers, aborted>>
       ELSE IF srv[s].refcount = 0 /\ f.abort
       THEN /\ aborted' = TRUE
            /\ last' = Report("finalize", NoName, s, "AssertUnref", "NULL", <<>>, NoPipe)
            /\ UNCHANGED <<server_pipe_hash, server_pipe_hash_refcount, servers, connection>>
       ELSE /\ IF srv[s].refcount = 0
               THEN /\ server_pipe_hash' = f.hash
                    /\ server_pipe_hash_refcount' = f.refcount
                    /\ servers' = f.servers
               ELSE /\ servers' = srv
                    /\ UNCHANGED <<server_pipe_hash, server_pipe_hash_refcount>>
            /\ connection' = [connection EXCEPT !.obj = o]
            /\ last' = Report("connect", cur.name, s, "unset", "transport", <<>>, NoPipe)
            /\ UNCHANGED aborted
    /\ pc' = "idle"
    /\ cur' = NoCur

Next ==
    \/ \E n \in Names, fail \in CreateFailures : _dbus_server_debug_pipe_new(n, fail)
    \/ \E s \in ServerIds : dbus_server_unref(s)
    \/ \E s \in ServerIds : debug_disconnect(s)
    \/ \E s \in ServerIds, f \in BOOLEAN : dbus_server_set_new_connection_function(s, f)
    \/ \E n \in Names, fail \in ConnectFailures : _dbus_transport_debug_pipe_new(n, fail)
    \/ CallbackRetains
    \/ CallbackReturns

Spec == Init /\ [][Next]_vars
(* ============================== claims ================================= *)
LiveNamed(n) == {s \in ServerIds : Live(s) /\ servers[s].name = n}
LiveDisconnected(n) == {s \in LiveNamed(n) : servers[s].disconnected}
LiveConnectable(n) == {s \in LiveNamed(n) : ~servers[s].disconnected}

RegistryUnchanged ==
    /\ server_pipe_hash' = server_pipe_hash
    /\ server_pipe_hash_refcount' = server_pipe_hash_refcount

\* a step that starts a connect (as opposed to the return from the callback)
ConnectStarts == pc = "idle" /\ last'.op \in {"connect", "handoff"}

\* C1: at most one live server exists under each name, whatever was created,
\* rejected or finalized before.
C1_Uniqueness == \A n \in Names : Cardinality(LiveNamed(n)) <= 1

\* C2: a create that reports AddressInUse leaves the hash table, its entries,
\* its use count and the server objects as they were before the call.
C2_AddressInUseMutatesNothing ==
    [][(last'.op = "create" /\ last'.err = "AddressInUse")
        => (RegistryUnchanged /\ servers' = servers)]_vars

\* C3: between operations the hash table is allocated if and only if at least
\* one server is live.
C3_RegistryLifecycle ==
    (pc = "idle" /\ ~aborted) => (server_pipe_hash.alloc <=> \E s \in ServerIds : Live(s))

\* C4: every pipe_hash_unref finds the table allocated and the count positive:
\* the failed assertion of pipe_hash_unref is unreachable.
C4_ReleaseMatched == ~(aborted /\ last.err = "AssertUnref")

\* C5: a create that fails at the registry acquire or at any allocation step
\* leaves the hash table, its entries and its use count as before the call.
C5_RollbackAtomicity ==
    [][(last'.op = "create" /\ last'.ret = "NULL" /\ last'.err \in {"unset", "NoMemory"})
        => RegistryUnchanged]_vars

\* C6: a connect reports NoServer only when no live server that was not
\* disconnected exists under the name.
C6_LiveEndpointReachable ==
    [][(ConnectStarts /\ last'.err = "NoServer") => LiveConnectable(last'.name) = {}]_vars

\* C7: while a disconnected server under n is live, every connect to n reports
\* NoServer, builds nothing and calls no new_connection_function.
C7_DisconnectGating ==
    [][(ConnectStarts /\ LiveDisconnected(last'.name) # {})
        => (last'.op = "connect" /\ last'.err = "NoServer"
            /\ connection' = connection /\ pc' = "idle")]_vars

\* C8: while a disconnected server under n is live, every create under n is
\* rejected with AddressInUse.
C8_DisconnectIsNotRemoval ==
    [][(last'.op = "create" /\ LiveDisconnected(last'.name) # {})
        => (last'.ret = "NULL" /\ last'.err = "AddressInUse")]_vars

\* C9: while the new_connection_function runs, the server it was called for is
\* live with a reference count of at least 1, whatever references the function
\* released; the server is finalized only by the return from the function, and
\* no connect reads a server after its finalization.
C9_SelfReferenceSafety ==
    /\ pc = "callback" => (Live(cur.server) /\ servers[cur.server].refcount >= 1)
    /\ ~last.useAfterFree

\* the function released the last reference of the owners, and the server was
\* finalized when the connect returned
C9_Witness ==
    /\ last.op = "connect" /\ last.ret = "transport"
    /\ servers[last.server].state = "finalized"

\* C10: when a connect returns its client transport, the connection has no
\* reference left, and its server transport and server descriptor are gone, if
\* and only if no new_connection_function kept a reference to it; if one did,
\* the connection, its transport and the descriptor are alive.
C10_AbandonedConnectionTeardown ==
    (last.op = "connect" /\ last.ret = "transport") =>
        LET k == connection IN
        /\ (k.obj.connection = 0) <=> ~k.retained
        /\ ~k.retained => (k.obj.server_transport = 0 /\ k.obj.server_fd = "closed")
        /\ k.retained => (/\ k.obj.connection >= 1
                          /\ k.obj.server_transport >= 1
                          /\ k.obj.server_fd = "owned")
        /\ k.obj.client_transport = 1 /\ k.obj.client_fd = "owned"

\* a connect to a server with a new_connection_function that did not keep the
\* connection has returned
C10_Witness ==
    /\ last.op = "connect" /\ last.ret = "transport"
    /\ Live(last.server) /\ servers[last.server].new_connection_function
    /\ connection.obj.connection = 0

\* C11: a connect that fails after the pipe was made returns with both
\* descriptors closed, each once, with no transport and no connection alive,
\* and without having released anything that was not built or that it no
\* longer owned.
C11_ConnectFailureBalance ==
    (last.op = "connect" /\ last.ret = "NULL" /\ last.step \in 4..7) =>
        /\ last.obj.client_fd = "closed"
        /\ last.obj.server_fd = "closed"
        /\ last.obj.client_transport \in {NoObject, 0}
        /\ last.obj.server_transport \in {NoObject, 0}
        /\ last.obj.connection \in {NoObject, 0}
        /\ ~last.obj.misuse

\* a connect failed to build the server transport: the client transport had
\* been built and was released, the server descriptor was closed by hand
C11_Witness ==
    /\ last.op = "connect" /\ last.ret = "NULL" /\ last.step = 5
    /\ last.obj.client_transport = 0
    /\ last.obj.server_transport = NoObject

\* C12: a create that returns NULL has set an error: AddressInUse for a name
\* in use, NoMemory for every failed allocation, the first included.
C12_CreateFailureReportsError ==
    (last.op = "create" /\ last.ret = "NULL" /\ ~aborted)
        => last.err \in {"AddressInUse", "NoMemory"}

\* C13: a connect to a server with a new_connection_function calls it once,
\* with the connection, when both transports and the connection exist, and
\* returns the client transport only after the call; a connect to a server
\* without one returns directly; a failing connect calls nothing.
C13_HandOffOrdering ==
    [][/\ (ConnectStarts /\ last'.ret = "NULL" /\ last'.op = "connect")
            => (pc' = "idle" /\ connection' = connection /\ servers' = servers)
       /\ (ConnectStarts /\ last'.op = "handoff")
            => /\ pc' = "callback"
               /\ cur' = [name |-> last'.name, server |-> last'.server]
               /\ servers[last'.server].new_connection_function
               /\ connection'.obj.client_transport = 1
               /\ connection'.obj.server_transport = 1
               /\ connection'.obj.connection = 1
               /\ ~connection'.retained
       /\ (ConnectStarts /\ last'.ret = "transport")
            => ~servers[last'.server].new_connection_function
       /\ (pc = "idle" /\ pc' = "callback") => last'.op = "handoff"
       /\ (pc = "callback" /\ pc' = "idle")
            => \/ last'.op = "connect" /\ last'.ret = "transport"
               \/ last'.op = "finalize" /\ aborted'
       /\ (pc = "callback" /\ last'.op = "connect") => pc' = "idle"
      ]_vars

\* a connect has returned after its new_connection_function kept the connection
C13_Witness ==
    /\ last.op = "connect" /\ last.ret = "transport"
    /\ connection.retained /\ connection.obj.connection = 1

NoLiveServer == \A s \in ServerIds : ~Live(s)

\* what C14 says of the steps taken while no server is live, and of a connect
\* that follows a create
RecyclingSteps ==
    /\ (NoLiveServer /\ ConnectStarts)
         => (last'.err = "NoServer" /\ last'.ret = "NULL")
    /\ (NoLiveServer /\ last'.op = "create" /\ last'.step = 0)
         => /\ last'.ret = "server"
            /\ servers'[last'.server].state = "live"
            /\ servers'[last'.server].name = last'.name
            /\ ~servers'[last'.server].disconnected
            /\ _dbus_hash_table_lookup_string(server_pipe_hash', last'.name)
                  = last'.server
    /\ (last.op = "create" /\ last.ret = "server" /\ ConnectStarts
           /\ last'.name = last.name /\ last'.step = 0)
         => (last'.err = "unset" /\ last'.server = last.server)

\* C14: once the only live server was finalized the hash table is NULL and the
\* count 0; a connect to any name then reports NoServer; a create under any
\* name, the finalized server's name included, succeeds if no allocation
\* fails, and gives a registered server that is not disconnected, which a
\* connect to that name reaches.
C14_RecyclingAName ==
    /\ []((NoLiveServer /\ ~aborted)
            => (~server_pipe_hash.alloc /\ server_pipe_hash_refcount = 0))
    /\ [][RecyclingSteps]_vars

\* a server was finalized, a new one was created under its name as the only
\* live server, and a connect to the name has reached it
C14_Witness ==
    /\ last.op = "connect" /\ last.ret = "transport"
    /\ \A s \in ServerIds : Live(s) <=> s = last.server
    /\ \E f \in ServerIds :
          servers[f].state = "finalized" /\ servers[f].name = last.name

\* what C15 says of one step
DisconnectFrame ==
    /\ last'.op = "disconnect"
         => /\ RegistryUnchanged
            /\ connection' = connection
            /\ pc' = pc /\ cur' = cur /\ aborted' = aborted
            /\ \E e \in ServerIds :
                  Live(e) /\ servers' = [servers EXCEPT ![e].disconnected = TRUE]
    /\ \A s \in ServerIds :
         (Live(s) /\ servers[s].disconnected /\ servers'[s].state = "live")
            => servers'[s].disconnected

\* C15: a disconnect sets the disconnected flag of one live server and changes
\* nothing else: not the hash table, its entries or its count, not another
\* server, not the connection handed out before; the flag of a live server
\* never goes back to FALSE.
C15_DisconnectFrame == [][DisconnectFrame]_vars

\* a server was disconnected while another one was live and connectable and
\* a connection handed out before was still held
C15_Witness ==
    /\ last.op = "disconnect"
    /\ connection.retained /\ connection.obj.connection = 1
    /\ \E s, t \in ServerIds :
          /\ Live(s) /\ servers[s].disconnected
          /\ Live(t) /\ ~servers[t].disconnected
    /\ server_pipe_hash.entries # {}

\* C16: the use count equals the number of live servers (each successful
\* pipe_hash_ref having added one to it).
C16_AcquireCounts ==
    ~aborted => server_pipe_hash_refcount = Cardinality({s \in ServerIds : Live(s)})

\* the data-model invariant of the registry, of a table h and a count rc
RegistryInvariant(h, rc) == (h.alloc <=> rc > 0) /\ rc >= 0

\* C17: the hash table is allocated if and only if the use count is above 0,
\* and the count is never negative: in every state between operations (the
\* states a finalize leaves included), and inside the create that can start
\* there, after its pipe_hash_ref and after its unwinding pipe_hash_unref.
C17_RegistryDataModel ==
    /\ RegistryInvariant(server_pipe_hash, server_pipe_hash_refcount)
    /\ ~aborted =>
          \A allocOk \in BOOLEAN :
             LET r == pipe_hash_ref(server_pipe_hash, server_pipe_hash_refcount, allocOk)
                 u == pipe_hash_unref(r.hash, r.refcount)
             IN  /\ ~r.abort
                 /\ RegistryInvariant(r.hash, r.refcount)
                 /\ r.ok => (~u.abort /\ RegistryInvariant(u.hash, u.refcount))

\* two servers are live, the table is allocated and the count is 1
C17_Witness ==
    /\ Cardinality({s \in ServerIds : Live(s)}) = 2
    /\ server_pipe_hash.alloc /\ server_pipe_hash_refcount = 1

\* C18: every entry of the hash table is the name of a live server and that
\* server, so no lookup returns a server that was finalized.
C18_NoDanglingEntry ==
    /\ \A e \in server_pipe_hash.entries :
          Live(e[2]) /\ servers[e[2]].name = e[1]
    /\ server_pipe_hash.entries # {} => server_pipe_hash.alloc
    /\ ~last.useAfterFree

\* a server was finalized and the table, allocated anew, holds another one
C18_Witness ==
    /\ server_pipe_hash.entries # {}
    /\ \E f \in ServerIds : servers[f].state = "finalized"

Reverse(q) == [i \in 1..Len(q) |-> q[Len(q) + 1 - i]]

\* C19: a create that fails at a step releases what the steps before it
\* acquired, all of it and nothing else, each once, last acquired first; a
\* rejected create releases its registry reference; a create that succeeds or
\* fails to get the registry reference releases nothing.
C19_ReverseOrderUnwind ==
    (last.op = "create" /\ ~aborted) =>
        CASE last.err = "NoMemory" ->
                /\ last.step \in 2..7
                /\ last.released = Reverse(Acquired(last.step))
          [] last.err = "AddressInUse" -> last.released = <<"pipe_hash">>
          [] OTHER -> last.released = <<>>

\* a create failed at the copy of the name and released the address string,
\* the server object and the registry reference, in that order
C19_Witness ==
    /\ last.op = "create" /\ last.err = "NoMemory" /\ last.step = 5
    /\ last.released = <<"address", "debug_server", "pipe_hash">>

\* the connect of name n finds no server to connect to: no table, no entry
\* under n, or an entry whose server is disconnected
FindsNoServer(n) ==
    LET server == _dbus_hash_table_lookup_string(server_pipe_hash, n) IN
    \/ ~server_pipe_hash.alloc
    \/ server = NULL
    \/ servers[server].disconnected

ConnectErrorKinds ==
    ConnectStarts =>
        LET noServer == FindsNoServer(last'.name) IN
        /\ last'.err \in {"NoServer", "Failed", "NoMemory", "unset"}
        /\ (last'.err = "NoServer") <=> noServer
        /\ (last'.err = "Failed") <=> (~noServer /\ last'.step = 3)
        /\ (last'.err = "NoMemory") <=> (~noServer /\ last'.step \in {1, 2, 4, 5, 6, 7})
        /\ (last'.err = "unset") <=> (~noServer /\ last'.step = 0)
        /\ (last'.err # "unset") => (last'.op = "connect" /\ last'.ret = "NULL")
        /\ (last'.op = "connect" /\ last'.ret = "NULL") => (last'.err # "unset")
        /\ RegistryUnchanged

====
